---------------------------- MODULE Spec2Model ----------------------------
(***************************************************************************)
(* A model of the restaurant back-office application of src/main.py: two   *)
(* in-memory collections (MENU_DB, SERVICE_DB), their id sequences, the    *)
(* startup seeding and the request handlers, together with the price       *)
(* parser coerce_price and the upload encoder encode_upload_to_data_url.   *)
(*                                                                         *)
(* A Python str is a sequence of one-character strings, so that strip,     *)
(* replace, float() and the f-strings are computed character by character. *)
(* An Optional[str] is a record [some, val], None being NoStr.             *)
(***************************************************************************)
EXTENDS Integers, Sequences, FiniteSets, TLC

VARIABLES
    MENU_DB,         \* main.py:20, the list of menu records
    SERVICE_DB,      \* main.py:21, the list of service records
    menu_id_seq,     \* main.py:22, the value the next next(menu_id_seq) returns
    service_id_seq,  \* main.py:23, the value the next next(service_id_seq) returns
    menu_ids_issued, \* every id a menu record has had in this process
    startups,        \* how many times the startup hook has run in this process
    edits,           \* how many edit submissions have been handled
    resp,            \* the request last answered and its response
    flights,         \* the requests in flight together, each with how far it has run
    raw,             \* the argument of a direct call of coerce_price
    outcome          \* what that call returned or raised

vars ==
    <<MENU_DB, SERVICE_DB, menu_id_seq, service_id_seq, menu_ids_issued, startups, edits,
      resp, flights, raw, outcome>>

----------------------------------------------------------------------------
(* Text *)

Whitespace == {" ", "\t", "\n", "\r"}

Digits == {"0", "1", "2", "3", "4", "5", "6", "7", "8", "9"}

DigitVal(c) ==
    CASE c = "0" -> 0 [] c = "1" -> 1 [] c = "2" -> 2 [] c = "3" -> 3 [] c = "4" -> 4
      [] c = "5" -> 5 [] c = "6" -> 6 [] c = "7" -> 7 [] c = "8" -> 8 [] c = "9" -> 9

Lower(c) ==
    CASE c = "I" -> "i" [] c = "N" -> "n" [] c = "F" -> "f" [] c = "A" -> "a"
      [] c = "T" -> "t" [] c = "Y" -> "y" [] c = "E" -> "e" [] OTHER -> c

\* str.strip(): from the first to the last character that is no whitespace
strip(s) ==
    LET ink == {i \in 1..Len(s) : s[i] \notin Whitespace}
    IN  IF ink = {}
        THEN <<>>
        ELSE SubSeq(s, CHOOSE i \in ink : \A j \in ink : i <= j,
                       CHOOSE i \in ink : \A j \in ink : j <= i)

NotComma(c) == c # ","

\* str.replace(",", "")
RemoveCommas(s) == SelectSeq(s, NotComma)

----------------------------------------------------------------------------
(* Naturals of any size, as sequences of limbs below Base, the least        *)
(* significant limb first and the last limb nonzero, <<>> for zero.  They   *)
(* carry the 53-bit significands of the doubles Python's float arithmetic   *)
(* works on.  A division returns its remainder (or whether anything was     *)
(* cut off) as the head of the result and the quotient as its tail.         *)

Base == 2^15

LNorm(a) ==
    LET nz == {i \in 1..Len(a) : a[i] # 0}
    IN  IF nz = {} THEN <<>> ELSE SubSeq(a, 1, CHOOSE i \in nz : \A j \in nz : j <= i)

\* a * m + c, for m <= Base
RECURSIVE LMulC(_, _, _)
LMulC(a, m, c) ==
    IF a = <<>>
    THEN IF c = 0 THEN <<>> ELSE <<c>>
    ELSE LET t == Head(a) * m + c
         IN  <<t % Base>> \o LMulC(Tail(a), m, t \div Base)

LMul(a, m) == LNorm(LMulC(a, m, 0))

\* a + c, for c < Base
LAdd(a, c) == LNorm(LMulC(a, 1, c))

\* hi = <<r>> \o q is the division of the higher limbs: the division with the
\* limb low put below them
DivJoin(hi, low, m) ==
    <<(Head(hi) * Base + low) % m, (Head(hi) * Base + low) \div m>> \o Tail(hi)

\* <<a mod m>> \o (a div m), for m <= Base
RECURSIVE LDivSmall(_, _)
LDivSmall(a, m) == IF a = <<>> THEN <<0>> ELSE DivJoin(LDivSmall(Tail(a), m), Head(a), m)

\* a * 2^s
RECURSIVE LShl(_, _)
LShl(a, s) ==
    IF a = <<>> THEN a
    ELSE IF s >= 15 THEN <<0>> \o LShl(a, s - 15)
    ELSE LMul(a, 2^s)

Cut(res, sticky) == <<IF Head(res) # 0 THEN 1 ELSE sticky>> \o LNorm(Tail(res))

\* <<whether a nonzero part was cut off (or sticky)>> \o (a div 2^s)
RECURSIVE LDivPow2(_, _, _)
LDivPow2(a, s, sticky) ==
    IF s = 0 \/ a = <<>> THEN <<sticky>> \o a
    ELSE IF s >= 15 THEN LDivPow2(Tail(a), s - 15, IF Head(a) # 0 THEN 1 ELSE sticky)
    ELSE Cut(LDivSmall(a, 2^s), sticky)

\* res = <<sticky>> \o a becomes <<whether a nonzero part was cut off (or
\* sticky)>> \o (a div 10^k)
RECURSIVE DivPow10(_, _)
DivPow10(res, k) ==
    IF k = 0 \/ Tail(res) = <<>> THEN res
    ELSE DivPow10(Cut(LDivSmall(Tail(res), 10), Head(res)), k - 1)

LDivPow10(a, k, sticky) == DivPow10(<<sticky>> \o a, k)

\* a * 10^k
RECURSIVE LMulPow10(_, _)
LMulPow10(a, k) == IF k = 0 THEN a ELSE LMul(LMulPow10(a, k - 1), 10)

\* the value of a sequence of decimal digits
RECURSIVE LFromDigits(_)
LFromDigits(ds) ==
    IF ds = <<>>
    THEN <<>>
    ELSE LAdd(LMul(LFromDigits(SubSeq(ds, 1, Len(ds) - 1)), 10), ds[Len(ds)])

RECURSIVE LToNat(_)
LToNat(a) == IF a = <<>> THEN 0 ELSE Head(a) + Base * LToNat(Tail(a))

RECURSIVE SmallBitLen(_)
SmallBitLen(n) == IF n = 0 THEN 0 ELSE 1 + SmallBitLen(n \div 2)

BitLen(a) == IF a = <<>> THEN 0 ELSE 15 * (Len(a) - 1) + SmallBitLen(a[Len(a)])

\* hi + 1 when the part cut off hi exceeds a half (half = 1 and sticky = 1), or
\* equals a half with hi odd; hi otherwise
RoundUpFrom(half, hi, sticky) ==
    IF half = 1 /\ (sticky = 1 \/ (hi # <<>> /\ hi[1] % 2 = 1))
    THEN LAdd(hi, 1)
    ELSE hi

\* res = <<half bit>> \o hi
RoundUp(res, sticky) == RoundUpFrom(Head(res), LNorm(Tail(res)), sticky)

RoundHalf(res) == RoundUp(LDivSmall(Tail(res), 2), Head(res))

\* a / 2^t (t >= 1) rounded to the nearest natural, ties to even; sticky = 1 tells
\* that the exact value lies strictly above a
RoundShift(a, t, sticky) == RoundHalf(LDivPow2(a, t - 1, sticky))

----------------------------------------------------------------------------
(* float(txt), main.py:41 *)

NotUnderscore(c) == c # "_"

\* an underscore may only stand between two digits
UnderscoresOk(s) ==
    \A i \in 1..Len(s) :
        s[i] = "_" => i > 1 /\ i < Len(s) /\ s[i - 1] \in Digits /\ s[i + 1] \in Digits

\* how many digits stand in a row in s from position i on
DigitSpan(s, i) ==
    LET stop == {j \in i..Len(s) : s[j] \notin Digits}
    IN  IF stop = {}
        THEN (IF i <= Len(s) THEN Len(s) - i + 1 ELSE 0)
        ELSE (CHOOSE j \in stop : \A k \in stop : j <= k) - i

\* the value of an exponent's digits, saturating far beyond any double's range
RECURSIVE ExpValue(_, _)
ExpValue(ds, acc) ==
    IF ds = <<>>
    THEN acc
    ELSE LET v == acc * 10 + DigitVal(Head(ds))
         IN  ExpValue(Tail(ds), IF v > 100000 THEN 100000 ELSE v)

\* The number a string denotes for float(): "invalid" (float raises ValueError),
\* "nan", "inf", or a decimal: the digits of its mantissa and its power of ten.
\* The string is read from left to right: sign, integer digits, point, fraction
\* digits, exponent.
Invalid == [kind |-> "invalid"]

Decimal(neg, mant, exp10) ==
    [kind |-> "dec", neg |-> neg,
     digits |-> [i \in 1..Len(mant) |-> DigitVal(mant[i])], exp10 |-> exp10]

\* the exponent's digits run from expStart to the end of body
ParseExpDigits(neg, mant, nFrac, body, expNeg, expStart) ==
    IF expStart <= Len(body) /\ DigitSpan(body, expStart) = Len(body) - expStart + 1
    THEN Decimal(neg, mant,
                 (IF expNeg THEN -1 ELSE 1) * ExpValue(SubSeq(body, expStart, Len(body)), 0)
                     - nFrac)
    ELSE Invalid

ParseExpSign(neg, mant, nFrac, body, p, expSigned) ==
    ParseExpDigits(neg, mant, nFrac, body, expSigned /\ body[p + 1] = "-",
                   p + (IF expSigned THEN 2 ELSE 1))

\* the mantissa ends before position p of body
ParseExp(neg, mant, nFrac, body, p) ==
    IF mant = <<>> THEN Invalid
    ELSE IF p = Len(body) + 1 THEN Decimal(neg, mant, 0 - nFrac)
    ELSE IF Lower(body[p]) # "e" THEN Invalid
    ELSE ParseExpSign(neg, mant, nFrac, body, p,
                      p + 1 <= Len(body) /\ body[p + 1] \in {"+", "-"})

ParseFracDigits(neg, body, nInt, fracStart, nFrac) ==
    ParseExp(neg, SubSeq(body, 1, nInt) \o SubSeq(body, fracStart, fracStart + nFrac - 1),
             nFrac, body, fracStart + nFrac)

ParseFrac(neg, body, nInt, hasPoint) ==
    ParseFracDigits(neg, body, nInt, nInt + (IF hasPoint THEN 2 ELSE 1),
                    IF hasPoint THEN DigitSpan(body, nInt + 2) ELSE 0)

ParseInt(neg, body, nInt) ==
    ParseFrac(neg, body, nInt, nInt < Len(body) /\ body[nInt + 1] = ".")

ParseWord(neg, body, word) ==
    IF word \in {<<"i", "n", "f">>, <<"i", "n", "f", "i", "n", "i", "t", "y">>}
    THEN [kind |-> "inf", neg |-> neg]
    ELSE IF word = <<"n", "a", "n">>
    THEN [kind |-> "nan", neg |-> neg]
    ELSE ParseInt(neg, body, DigitSpan(body, 1))

ParseBody(neg, body) == ParseWord(neg, body, [i \in 1..Len(body) |-> Lower(body[i])])

ParseSign(s, signed) == ParseBody(signed /\ s[1] = "-", IF signed THEN Tail(s) ELSE s)

ParseStripped(s0) ==
    IF ~UnderscoresOk(s0)
    THEN Invalid
    ELSE ParseSign(SelectSeq(s0, NotUnderscore), s0 # <<>> /\ s0[1] \in {"+", "-"})

ParseFloat(text) == ParseStripped(strip(text))

\* the digits without their leading zeros
StripZeros(ds) ==
    LET nz == {i \in 1..Len(ds) : ds[i] # 0}
    IN  IF nz = {} THEN <<>> ELSE SubSeq(ds, CHOOSE i \in nz : \A j \in nz : i <= j, Len(ds))

\* The double nearest to n / 10^k, for 2^-10 <= n / 10^k: its significand m of 53
\* bits (2^53 when rounding carries) and its binary exponent e2, the value being
\* m * 2^e2.  res is <<sticky>> \o floor(n * 2^64 / 10^k), of t + 53 bits.
SignificandAt(res, t) == [m |-> RoundShift(Tail(res), t, Head(res)), e2 |-> t - 64]

Significand(res) == SignificandAt(res, BitLen(Tail(res)) - 53)

NearestDouble(n, k) == Significand(LDivPow10(LShl(n, 64), k, 0))

Num(neg, nd) == [kind |-> "num", neg |-> neg, m |-> nd.m, e2 |-> nd.e2]

\* ds are the digits of the mantissa without leading zeros, and
\* 10^(mag-1) <= |x| < 10^mag
FloatOfMag(p, ds, mag) ==
    IF ds = <<>> THEN [kind |-> "zero", neg |-> p.neg]
    ELSE IF mag >= 310 THEN [kind |-> "inf", neg |-> p.neg]
    ELSE IF mag >= 308 THEN [kind |-> "large", neg |-> p.neg]
    ELSE IF mag >= 8 THEN [kind |-> "unmodelled", neg |-> p.neg]
    ELSE IF mag >= -2
    THEN Num(p.neg,
             NearestDouble(IF p.exp10 >= 0 THEN LMulPow10(LFromDigits(ds), p.exp10)
                           ELSE LFromDigits(ds),
                           IF p.exp10 >= 0 THEN 0 ELSE 0 - p.exp10))
    ELSE IF mag >= -322 THEN [kind |-> "tiny", neg |-> p.neg]
    ELSE IF mag <= -324 THEN [kind |-> "zero", neg |-> p.neg]
    ELSE [kind |-> "unmodelled", neg |-> p.neg]

FloatOfDigits(p, ds) == FloatOfMag(p, ds, Len(ds) + p.exp10)

\* The double float() returns for a parsed string.  Between 10^-3 and 10^7 it is
\* computed bit for bit ("num"); outside, only what the price computation needs is
\* kept: "large" is a value of at least 10^307 (its product by 100 is infinite),
\* "tiny" a nonzero value below 10^-3 (its product by 100 rounds to 0), and
\* "unmodelled" a value whose minor units exceed the integers of this model.
FloatOf(p) ==
    IF p.kind \in {"nan", "inf"} THEN p ELSE FloatOfDigits(p, StripZeros(p.digits))

\* value < 0, main.py:42 (false for nan and for -0.0)
IsNegative(value) == value.kind \in {"inf", "large", "num", "tiny", "unmodelled"} /\ value.neg

\* prod is the exact product of the significand by 100, of t + 53 bits
RoundProduct(value, prod, t) ==
    [value EXCEPT !.m = RoundShift(prod, t, 0), !.e2 = value.e2 + t]

Mul100Num(value, prod) == RoundProduct(value, prod, BitLen(prod) - 53)

\* value * 100, main.py:44: the exact product rounded to 53 bits
Mul100(value) ==
    CASE value.kind = "num" -> Mul100Num(value, LMul(value.m, 100))
      [] value.kind = "large" -> [kind |-> "inf", neg |-> value.neg]
      [] OTHER -> value

Raise(exc, msg, arg) == [exc |-> exc, msg |-> msg, arg |-> arg, cents |-> -1]

Return(cents) == [exc |-> "", msg |-> "", arg |-> <<>>, cents |-> cents]

\* int(round(x)), main.py:44: round() of a float rounds half to even and raises
\* on nan and on the infinities
RoundToInt(x) ==
    CASE x.kind = "nan" -> Raise("ValueError", "cannot convert float NaN to integer", <<>>)
      [] x.kind = "inf" -> Raise("OverflowError", "cannot convert float infinity to integer", <<>>)
      [] x.kind \in {"zero", "tiny"} -> Return(0)
      [] x.kind = "num" ->
            Return(LToNat(IF x.e2 >= 0
                          THEN LShl(x.m, x.e2)
                          ELSE RoundShift(x.m, 0 - x.e2, 0)))
      [] OTHER -> Raise("Unmodelled", "", <<>>)

\* main.py:42-45
coerce_value(value) ==
    IF IsNegative(value)
    THEN Raise("ValueError", "Price cannot be negative", <<>>)
    ELSE RoundToInt(Mul100(value))

\* main.py:41: p is what float(txt) reads in txt
coerce_parsed(txt, p) ==
    IF p.kind = "invalid"
    THEN Raise("ValueError", "could not convert string to float", txt)
    ELSE coerce_value(FloatOf(p))

\* main.py:39-45
coerce_txt(txt) ==
    IF txt = <<>>
    THEN Raise("ValueError", "Price required", <<>>)
    ELSE coerce_parsed(txt, ParseFloat(txt))

\* main.py:37-45; rawPrice is a str, so that (raw or "") is raw
coerce_price(rawPrice) == coerce_txt(RemoveCommas(strip(rawPrice)))

----------------------------------------------------------------------------
(* encode_upload_to_data_url, main.py:25-35 *)

NoStr == [some |-> FALSE, val |-> <<>>]

Some(text) == [some |-> TRUE, val |-> text]

\* the truth value Python gives an Optional[str]
Truthy(opt) == opt.some /\ opt.val # <<>>

\* An UploadFile: its filename, its declared content type (<<>> when none is
\* declared) and the bytes of its stream; NoUpload is a missing form field.
NoUpload == [present |-> FALSE, filename |-> <<>>, content_type |-> <<>>, content |-> <<>>]

Upload(filename, content_type, content) ==
    [present |-> TRUE, filename |-> filename, content_type |-> content_type,
     content |-> content]

B64Alphabet ==
    <<"A", "B", "C", "D", "E", "F", "G", "H", "I", "J", "K", "L", "M", "N", "O", "P",
      "Q", "R", "S", "T", "U", "V", "W", "X", "Y", "Z", "a", "b", "c", "d", "e", "f",
      "g", "h", "i", "j", "k", "l", "m", "n", "o", "p", "q", "r", "s", "t", "u", "v",
      "w", "x", "y", "z", "0", "1", "2", "3", "4", "5", "6", "7", "8", "9", "+", "/">>

\* the four characters base64 gives a group of one, two or three bytes
B64Group(g) ==
    LET n == g[1] * 65536 + (IF Len(g) >= 2 THEN g[2] * 256 ELSE 0)
                          + (IF Len(g) >= 3 THEN g[3] ELSE 0)
    IN  <<B64Alphabet[(n \div 262144) + 1],
          B64Alphabet[((n \div 4096) % 64) + 1],
          IF Len(g) >= 2 THEN B64Alphabet[((n \div 64) % 64) + 1] ELSE "=",
          IF Len(g) >= 3 THEN B64Alphabet[(n % 64) + 1] ELSE "=">>

\* base64.b64encode(content).decode("ascii"), main.py:34
RECURSIVE b64encode(_)
b64encode(content) ==
    IF content = <<>>
    THEN <<>>
    ELSE IF Len(content) <= 3
    THEN B64Group(content)
    ELSE B64Group(SubSeq(content, 1, 3)) \o b64encode(SubSeq(content, 4, Len(content)))

\* the text after the last dot of a filename, <<>> when it has no dot
Extension(filename) ==
    LET dots == {i \in 1..Len(filename) : filename[i] = "."}
    IN  IF dots = {}
        THEN <<>>
        ELSE SubSeq(filename, (CHOOSE i \in dots : \A j \in dots : j <= i) + 1, Len(filename))

\* mimetypes.guess_type(filename)[0], main.py:33, for the common image types;
\* NoStr when the extension tells nothing
guess_type(filename) ==
    LET ext == Extension(filename)
    IN  CASE ext = <<"p", "n", "g">> -> Some(<<"i", "m", "a", "g", "e", "/", "p", "n", "g">>)
          [] ext \in {<<"j", "p", "g">>, <<"j", "p", "e", "g">>} ->
                Some(<<"i", "m", "a", "g", "e", "/", "j", "p", "e", "g">>)
          [] ext = <<"g", "i", "f">> -> Some(<<"i", "m", "a", "g", "e", "/", "g", "i", "f">>)
          [] OTHER -> NoStr

OctetStream ==
    <<"a", "p", "p", "l", "i", "c", "a", "t", "i", "o", "n", "/", "o", "c", "t", "e",
      "t", "-", "s", "t", "r", "e", "a", "m">>

DataUrl(mime, b64) ==
    <<"d", "a", "t", "a", ":">> \o mime \o <<";", "b", "a", "s", "e", "6", "4", ",">> \o b64

\* main.py:25-35
encode_upload_to_data_url(file) ==
    IF ~file.present THEN NoStr
    ELSE IF file.filename = <<>> THEN NoStr
    ELSE IF file.content = <<>> THEN NoStr
    ELSE LET mime == IF file.content_type # <<>> THEN file.content_type
                     ELSE IF Truthy(guess_type(file.filename))
                          THEN guess_type(file.filename).val
                          ELSE OctetStream
         IN  Some(DataUrl(mime, b64encode(file.content)))

----------------------------------------------------------------------------
(* seed_data, main.py:50-108 *)

Png_FDE68A ==
    <<"i", "V", "B", "O", "R", "w", "0", "K", "G", "g", "o", "A", "A", "A", "A", "N",
      "S", "U", "h", "E", "U", "g", "A", "A", "A", "A", "E", "A", "A", "A", "A", "B",
      "C", "A", "Q", "A", "A", "A", "C", "1", "H", "A", "w", "C", "A", "A", "A", "A",
      "C", "0", "l", "E", "Q", "V", "R", "4", "2", "m", "P", "8", "/", "x", "8", "A",
      "A", "u", "M", "B", "g", "K", "k", "q", "2", "A", "k", "A", "A", "A", "A", "A",
      "S", "U", "V", "O", "R", "K", "5", "C", "Y", "I", "I", "=">>

Png_BFDBFE ==
    <<"i", "V", "B", "O", "R", "w", "0", "K", "G", "g", "o", "A", "A", "A", "A", "N",
      "S", "U", "h", "E", "U", "g", "A", "A", "A", "A", "E", "A", "A", "A", "A", "B",
      "C", "A", "Q", "A", "A", "A", "C", "1", "H", "A", "w", "C", "A", "A", "A", "A",
      "C", "0", "l", "E", "Q", "V", "R", "4", "2", "m", "P", "8", "z", "w", "8", "A",
      "A", "l", "8", "B", "1", "q", "1", "q", "j", "1", "A", "A", "A", "A", "A", "A",
      "S", "U", "V", "O", "R", "K", "5", "C", "Y", "I", "I", "=">>

Png_C7F9CC ==
    <<"i", "V", "B", "O", "R", "w", "0", "K", "G", "g", "o", "A", "A", "A", "A", "N",
      "S", "U", "h", "E", "U", "g", "A", "A", "A", "A", "E", "A", "A", "A", "A", "B",
      "C", "A", "Q", "A", "A", "A", "C", "1", "H", "A", "w", "C", "A", "A", "A", "A",
      "C", "0", "l", "E", "Q", "V", "R", "4", "2", "m", "P", "8", "z", "Q", "8", "A",
      "A", "i", "E", "B", "0", "o", "X", "v", "C", "w", "A", "A", "A", "A", "B", "J",
      "R", "U", "5", "E", "r", "k", "J", "g", "g", "g", "=", "=">>

Png_FBCFE8 ==
    <<"i", "V", "B", "O", "R", "w", "0", "K", "G", "g", "o", "A", "A", "A", "A", "N",
      "S", "U", "h", "E", "U", "g", "A", "A", "A", "A", "E", "A", "A", "A", "A", "B",
      "C", "A", "Q", "A", "A", "A", "C", "1", "H", "A", "w", "C", "A", "A", "A", "A",
      "C", "0", "l", "E", "Q", "V", "R", "4", "2", "m", "P", "8", "P", "w", "8", "A",
      "A", "m", "I", "B", "q", "1", "o", "7", "S", "g", "A", "A", "A", "A", "B", "J",
      "R", "U", "5", "E", "r", "k", "J", "g", "g", "g", "=", "=">>

ImagePng == <<"i", "m", "a", "g", "e", "/", "p", "n", "g">>

\* px, main.py:53-61; the colours are named by their hex digits
px(color_hex) ==
    DataUrl(ImagePng,
            CASE color_hex = "#FDE68A" -> Png_FDE68A
              [] color_hex = "#BFDBFE" -> Png_BFDBFE
              [] color_hex = "#C7F9CC" -> Png_C7F9CC
              [] color_hex = "#FBCFE8" -> Png_FBCFE8
              [] OTHER -> Png_FDE68A)

ClassicBurger ==
    <<"C", "l", "a", "s", "s", "i", "c", " ", "B", "u", "r", "g", "e", "r">>

ClassicBurgerText ==
    <<"G", "r", "i", "l", "l", "e", "d", " ", "b", "e", "e", "f", " ", "p", "a", "t",
      "t", "y", ",", " ", "c", "h", "e", "d", "d", "a", "r", ",", " ", "l", "e", "t",
      "t", "u", "c", "e", ",", " ", "t", "o", "m", "a", "t", "o", ",", " ", "h", "o",
      "u", "s", "e", " ", "s", "a", "u", "c", "e", ".">>

ChickenAlfredo ==
    <<"C", "h", "i", "c", "k", "e", "n", " ", "A", "l", "f", "r", "e", "d", "o">>

ChickenAlfredoText ==
    <<"C", "r", "e", "a", "m", "y", " ", "p", "a", "s", "t", "a", " ", "w", "i", "t",
      "h", " ", "r", "o", "a", "s", "t", "e", "d", " ", "c", "h", "i", "c", "k", "e",
      "n", " ", "a", "n", "d", " ", "p", "a", "r", "m", "e", "s", "a", "n", ".">>

VeggieBowl ==
    <<"V", "e", "g", "g", "i", "e", " ", "B", "o", "w", "l">>

VeggieBowlText ==
    <<"S", "e", "a", "s", "o", "n", "a", "l", " ", "v", "e", "g", "g", "i", "e", "s",
      ",", " ", "q", "u", "i", "n", "o", "a", ",", " ", "t", "a", "h", "i", "n", "i",
      " ", "d", "r", "i", "z", "z", "l", "e", ".">>

IcedLatte ==
    <<"I", "c", "e", "d", " ", "L", "a", "t", "t", "e">>

IcedLatteText ==
    <<"A", "r", "a", "b", "i", "c", "a", " ", "e", "s", "p", "r", "e", "s", "s", "o",
      " ", "o", "v", "e", "r", " ", "i", "c", "e", " ", "a", "n", "d", " ", "m", "i",
      "l", "k", ".">>

GardenPavilion ==
    <<"E", "v", "e", "n", "t", " ", "P", "l", "a", "c", "e", ":", " ", "G", "a", "r",
      "d", "e", "n", " ", "P", "a", "v", "i", "l", "i", "o", "n">>

RooftopLounge ==
    <<"E", "v", "e", "n", "t", " ", "P", "l", "a", "c", "e", ":", " ", "R", "o", "o",
      "f", "t", "o", "p", " ", "L", "o", "u", "n", "g", "e">>

\* the module globals of main.py:20-23, as one value
Store ==
    [MENU_DB |-> MENU_DB, SERVICE_DB |-> SERVICE_DB,
     menu_id_seq |-> menu_id_seq, service_id_seq |-> service_id_seq]

\* seed_data without the guard of main.py:51-52
SeedGuardMissing(st) == FALSE

\* main.py:51: seeding returns at once when either list holds a record
SeedGuard(st) == st.MENU_DB # <<>> \/ st.SERVICE_DB # <<>>

\* main.py:50-108
seed_data(st) ==
    IF SeedGuard(st)
    THEN st
    ELSE LET m == st.menu_id_seq
             s == st.service_id_seq
             sample_menu ==
                 <<[id |-> m, name |-> ClassicBurger,
                    price_cents |-> coerce_price(<<"1", "9", "9">>).cents,
                    image |-> px("#FDE68A"), description |-> ClassicBurgerText],
                   [id |-> m + 1, name |-> ChickenAlfredo,
                    price_cents |-> coerce_price(<<"2", "4", "9", ".", "5", "0">>).cents,
                    image |-> px("#BFDBFE"), description |-> ChickenAlfredoText],
                   [id |-> m + 2, name |-> VeggieBowl,
                    price_cents |-> coerce_price(<<"1", "7", "9">>).cents,
                    image |-> px("#C7F9CC"), description |-> VeggieBowlText],
                   [id |-> m + 3, name |-> IcedLatte,
                    price_cents |-> coerce_price(<<"9", "9">>).cents,
                    image |-> px("#FBCFE8"), description |-> IcedLatteText]>>
             sample_services ==
                 <<[id |-> s, name |-> GardenPavilion,
                    price_cents |-> coerce_price(<<"5", "0", "0", "0">>).cents,
                    image |-> px("#BFDBFE")],
                   [id |-> s + 1, name |-> RooftopLounge,
                    price_cents |-> coerce_price(<<"8", "0", "0", "0">>).cents,
                    image |-> px("#C7F9CC")]>>
         IN  [MENU_DB        |-> st.MENU_DB \o sample_menu,
              SERVICE_DB     |-> st.SERVICE_DB \o sample_services,
              menu_id_seq    |-> m + 4,
              service_id_seq |-> s + 2]

----------------------------------------------------------------------------
(* The request handlers, main.py:114-237, as functions from the store and   *)
(* the request to the store afterwards and the response.  A handler runs    *)
(* from its start to its return unless it awaits; the one call of a handler *)
(* body that does input or output is the read of the upload's stream        *)
(* (main.py:30, reached from lines 158, 200 and 227), so a result may be    *)
(* suspended there, the rest of the body being run by the finish operator.  *)

\* a form submission; add_service has no description and no image_url field
Form(name, price, description, image_file, image_url) ==
    [name |-> name, price |-> price, description |-> description,
     image_file |-> image_file, image_url |-> image_url]

NoForm == Form(<<>>, <<>>, <<>>, NoUpload, NoStr)

Text(msg, arg) == [msg |-> msg, arg |-> arg]

\* RedirectResponse(url=f"{path}?{param}={text}{fragment}", status_code=status)
Redirect(status, path, param, text, fragment) ==
    [status |-> status, path |-> path, param |-> param, text |-> text,
     fragment |-> fragment]

\* HTTPException(status_code=404, detail="Menu item not found")
NotFound == Redirect(404, "", "detail", Text("Menu item not found", <<>>), "")

\* an exception no handler catches: the server answers 500
Unhandled(e) == Redirect(500, "", e.exc, Text(e.msg, e.arg), "")

\* templates.TemplateResponse(template, ...)
Page(template) == Redirect(200, template, "", Text("", <<>>), "")

\* no response yet: the handler is suspended in its read of the upload
Pending == Redirect(0, "", "", Text("", <<>>), "")

Result(st, r) == [st |-> st, r |-> r, suspended |-> FALSE]

\* the read of the upload as an awaited read (await file.read())
UploadReadAwaited == TRUE

\* main.py:30 is file.file.read(), a synchronous read: the handler does not
\* yield to the event loop in it
UploadReadYields == FALSE

\* main.py:26-30: the stream of the upload is read
ReadsUpload(file) == file.present /\ file.filename # <<>>

Suspend(st, file) ==
    [st |-> st, r |-> Pending, suspended |-> UploadReadYields /\ ReadsUpload(file)]

\* the id as the length of the list plus one, instead of next(menu_id_seq)
MenuIdByCount(st) == Len(st.MENU_DB) + 1

\* next(menu_id_seq), main.py:162: the id the next menu item gets
NextMenuId(st) == st.menu_id_seq

\* the id as the length of the list, instead of next(service_id_seq)
ServiceIdByCount(st) == Len(st.SERVICE_DB)

\* next(service_id_seq), main.py:231
NextServiceId(st) == st.service_id_seq

\* the first position of db holding id item_id, 0 when there is none
\* (main.py:173, 187, 210)
FindIndex(db, item_id) ==
    LET hits == {i \in 1..Len(db) : db[i].id = item_id}
    IN  IF hits = {} THEN 0 ELSE CHOOSE i \in hits : \A j \in hits : i <= j

\* del db[idx] with the position taken one too far
RemoveAfter(db, idx) == SubSeq(db, 1, idx) \o SubSeq(db, idx + 2, Len(db))

\* del db[idx], main.py:213
RemoveAt(db, idx) == SubSeq(db, 1, idx - 1) \o SubSeq(db, idx + 1, Len(db))

\* add_menu with next(menu_id_seq) taken before the price is validated
AddMenuRejectedLate(st, e) ==
    Result([st EXCEPT !.menu_id_seq = @ + 1],
           Redirect(303, "/manage", "err", Text(e.msg, e.arg), ""))

\* main.py:155-156: the redirect of add_menu for a price coerce_price refuses
AddMenuRejected(st, e) ==
    Result(st, Redirect(303, "/manage", "err", Text(e.msg, e.arg), ""))

\* data_url or image_url or "", main.py:159; (data_url or "") for image_url = NoStr,
\* main.py:228
FirstOf(data_url, image_url) ==
    IF Truthy(data_url) THEN data_url.val
    ELSE IF Truthy(image_url) THEN image_url.val ELSE <<>>

\* main.py:158-169
add_menu_finish(st, form, price_cents) ==
    LET item == [id          |-> NextMenuId(st),
                 name        |-> strip(form.name),
                 price_cents |-> price_cents,
                 image       |-> FirstOf(encode_upload_to_data_url(form.image_file),
                                         form.image_url),
                 description |-> strip(form.description)]
    IN  Result([st EXCEPT !.MENU_DB = Append(@, item),
                          !.menu_id_seq = st.menu_id_seq + 1],
               Redirect(303, "/manage", "msg", Text("Menu+added", <<>>), ""))

\* main.py:153-157: e is what coerce_price(price) returned or raised
add_menu_priced(st, form, e) ==
    IF e.exc = "ValueError" THEN AddMenuRejected(st, e)
    ELSE IF e.exc # "" THEN Result(st, Unhandled(e))
    ELSE IF Suspend(st, form.image_file).suspended THEN Suspend(st, form.image_file)
    ELSE add_menu_finish(st, form, e.cents)

\* main.py:145-157
add_menu_begin(st, form) == add_menu_priced(st, form, coerce_price(form.price))

\* main.py:227-237
add_service_finish(st, form, price_cents) ==
    LET item == [id          |-> NextServiceId(st),
                 name        |-> strip(form.name),
                 price_cents |-> price_cents,
                 image       |-> FirstOf(encode_upload_to_data_url(form.image_file), NoStr)]
    IN  Result([st EXCEPT !.SERVICE_DB = Append(@, item),
                          !.service_id_seq = st.service_id_seq + 1],
               Redirect(303, "/manage", "msg", Text("Service+added", <<>>), "#services"))

\* main.py:222-226: e is what coerce_price(price) returned or raised
add_service_priced(st, form, e) ==
    IF e.exc = "ValueError"
    THEN Result(st, Redirect(303, "/manage", "err", Text(e.msg, e.arg), "#services"))
    ELSE IF e.exc # "" THEN Result(st, Unhandled(e))
    ELSE IF Suspend(st, form.image_file).suspended THEN Suspend(st, form.image_file)
    ELSE add_service_finish(st, form, e.cents)

\* main.py:216-226
add_service_begin(st, form) == add_service_priced(st, form, coerce_price(form.price))

\* lines 201-204 of main.py in the other order: image_url before data_url
ImageUrlFirst(old, data_url, image_url) ==
    IF Truthy(image_url) THEN image_url.val
    ELSE IF Truthy(data_url) THEN data_url.val
    ELSE old

\* main.py:200-204: the image of the record after an edit
ImageAfterEdit(old, data_url, image_url) ==
    IF Truthy(data_url) THEN data_url.val
    ELSE IF Truthy(image_url) THEN image_url.val
    ELSE old

\* main.py:200-206.  item is the dict found at line 187: when it has left the
\* list meanwhile, the list is not touched.
edit_menu_finish(st, item_id, form) ==
    LET idx      == FindIndex(st.MENU_DB, item_id)
        data_url == encode_upload_to_data_url(form.image_file)
    IN  Result(IF idx = 0
               THEN st
               ELSE [st EXCEPT !.MENU_DB[idx].image =
                                   ImageAfterEdit(@, data_url, form.image_url)],
               Redirect(303, "/manage", "msg", Text("Menu+updated", <<>>), ""))

\* main.py:196-198
SetFields(st, idx, form, price_cents) ==
    [st EXCEPT !.MENU_DB[idx] =
        [@ EXCEPT !.name        = strip(form.name),
                  !.price_cents = price_cents,
                  !.description = strip(form.description)]]

\* main.py:191-199: e is what coerce_price(price) returned or raised
edit_menu_priced(st, idx, item_id, form, e) ==
    IF e.exc = "ValueError"
    THEN Result(st, Redirect(303, "/menu/{item_id}/edit", "err", Text(e.msg, e.arg), ""))
    ELSE IF e.exc # "" THEN Result(st, Unhandled(e))
    ELSE IF Suspend(st, form.image_file).suspended
    THEN Suspend(SetFields(st, idx, form, e.cents), form.image_file)
    ELSE edit_menu_finish(SetFields(st, idx, form, e.cents), item_id, form)

\* edit_menu with the price validated (main.py:191-194) before the lookup
\* (main.py:187-189)
edit_menu_price_first(st, idx, item_id, form) ==
    IF coerce_price(form.price).exc = "ValueError"
    THEN edit_menu_priced(st, idx, item_id, form, coerce_price(form.price))
    ELSE IF idx = 0 THEN Result(st, NotFound)
    ELSE edit_menu_priced(st, idx, item_id, form, coerce_price(form.price))

\* main.py:187-190
edit_menu_found(st, idx, item_id, form) ==
    IF idx = 0 THEN Result(st, NotFound)
    ELSE edit_menu_priced(st, idx, item_id, form, coerce_price(form.price))

\* main.py:178-199
edit_menu_begin(st, item_id, form) ==
    edit_menu_found(st, FindIndex(st.MENU_DB, item_id), item_id, form)

\* main.py:208-214
delete_menu_run(st, item_id) ==
    LET idx == FindIndex(st.MENU_DB, item_id)
    IN  IF idx = 0
        THEN Result(st, NotFound)
        ELSE Result([st EXCEPT !.MENU_DB = RemoveAt(@, idx)],
                    Redirect(303, "/manage", "msg", Text("Menu+deleted", <<>>), ""))

\* main.py:171-176
edit_menu_form_run(st, item_id) ==
    IF FindIndex(st.MENU_DB, item_id) = 0
    THEN Result(st, NotFound)
    ELSE Result(st, Page("edit_menu.html"))

Request(op, item_id, form) == [op |-> op, item_id |-> item_id, form |-> form]

\* a handler from its start to its return or to its suspension
Begin(st, req) ==
    CASE req.op = "add_menu"       -> add_menu_begin(st, req.form)
      [] req.op = "add_service"    -> add_service_begin(st, req.form)
      [] req.op = "edit_menu"      -> edit_menu_begin(st, req.item_id, req.form)
      [] req.op = "delete_menu"    -> delete_menu_run(st, req.item_id)
      [] req.op = "edit_menu_form" -> edit_menu_form_run(st, req.item_id)
      [] req.op = "root"           -> Result(st, Redirect(302, "/dashboard", "", Text("", <<>>), ""))
      [] req.op = "dashboard"      -> Result(st, Page("dashboard.html"))
      [] req.op = "manage"         -> Result(st, Page("manage.html"))

\* a suspended handler from its resumption to its return
Finish(st, req) ==
    CASE req.op = "add_menu"    -> add_menu_finish(st, req.form, coerce_price(req.form.price).cents)
      [] req.op = "add_service" -> add_service_finish(st, req.form, coerce_price(req.form.price).cents)
      [] req.op = "edit_menu"   -> edit_menu_finish(st, req.item_id, req.form)

\* a handler run alone, from its start to its return
Resume(res, req) == IF res.suspended THEN Finish(res.st, req) ELSE res

Run(st, req) == Resume(Begin(st, req), req)

----------------------------------------------------------------------------
(* The requests the model submits *)

\* the highest menu id a create-menu request may be given
MaxMenuId == 5

\* the highest service id a create-service request may be given
MaxServiceId == 3

\* how many edit submissions are handled
MaxEdits == 1

\* how many menu items are deleted
MaxDeletes == 2

\* how many times the startup hook runs in one process
MaxStartups == 2

ItemIds == 1..(MaxMenuId + 1)

UsablePng == Upload(<<"a", ".", "p", "n", "g">>, ImagePng, <<137, 80, 78, 71>>)

EmptyContent == Upload(<<"a", ".", "p", "n", "g">>, ImagePng, <<>>)

UsableJpg == Upload(<<"b", ".", "j", "p", "g">>, <<>>, <<255, 216>>)

EmptyName == Upload(<<>>, ImagePng, <<72>>)

Url == <<"h", "t", "t", "p", ":", "/", "/", "x", "/", "r", ".", "p", "n", "g">>

\* what a form submits as image_file and image_url
Images ==
    {<<NoUpload, NoStr>>, <<UsablePng, Some(Url)>>, <<EmptyContent, Some(Url)>>,
     <<UsableJpg, Some(<<>>)>>, <<EmptyName, NoStr>>}

\* prices coerce_price refuses or fails on
BadPrices ==
    {<<>>, <<" ", " ">>, <<"-", "1">>, <<"a", "b", "c">>, <<"n", "a", "n">>,
     <<"i", "n", "f">>, <<"1", "e", "9", "9", "9">>}

AddForms ==
    {Form(<<" ", "T", "e", "s", "t">>, <<"1", "2", ".", "5">>, <<"x">>, i[1], i[2]) : i \in Images}
    \cup {Form(<<" ", "T", "e", "s", "t">>, p, <<"x">>, UsablePng, Some(Url)) : p \in BadPrices}

EditForms ==
    {Form(<<"R", "a", "m", "e", "n", " ">>, <<"1", ",", "2", "5", "0", ".", "7", "5">>,
          <<" ", "h", "o", "t", " ">>, i[1], i[2]) : i \in Images}
    \cup {Form(<<"R", "a", "m", "e", "n", " ">>, p, <<" ", "h", "o", "t", " ">>,
               UsablePng, Some(Url)) : p \in BadPrices}

ServiceForms ==
    {Form(<<" ", "H", "a", "l", "l", " ">>, <<" ", "5", "0", "0", "0", " ">>, <<>>, f, NoStr) :
        f \in {NoUpload, UsablePng}}
    \cup {Form(<<" ", "H", "a", "l", "l", " ">>, p, <<>>, UsablePng, NoStr) : p \in BadPrices}

----------------------------------------------------------------------------
(* The server: the startup hook, then one request after the other *)

NoRequest == Request("none", 0, NoForm)

\* no request is being answered
Idle == [req |-> NoRequest, r |-> Pending]

NotCalled == Raise("NotCalled", "", <<>>)

\* the ids of the records of db
Ids(db) == {db[i].id : i \in 1..Len(db)}

\* main.py:20-23: the globals when the module has been imported
Fresh ==
    [MENU_DB |-> <<>>, SERVICE_DB |-> <<>>, menu_id_seq |-> 1, service_id_seq |-> 1]

Init ==
    /\ MENU_DB = Fresh.MENU_DB
    /\ SERVICE_DB = Fresh.SERVICE_DB
    /\ menu_id_seq = Fresh.menu_id_seq
    /\ service_id_seq = Fresh.service_id_seq
    /\ menu_ids_issued = {}
    /\ startups = 0
    /\ edits = 0
    /\ resp = Idle
    /\ flights = <<>>
    /\ raw = <<>>
    /\ outcome = NotCalled

\* the globals become those of st; menu_ids_issued records every id a menu
\* record has been seen with
Install(st) ==
    /\ MENU_DB' = st.MENU_DB
    /\ SERVICE_DB' = st.SERVICE_DB
    /\ menu_id_seq' = st.menu_id_seq
    /\ service_id_seq' = st.service_id_seq
    /\ menu_ids_issued' = menu_ids_issued \cup Ids(st.MENU_DB)

\* main.py:110-112.  The hook runs before the first request is served, and
\* again each time the application is started anew within the process.
on_startup ==
    /\ startups < MaxStartups
    /\ resp = Idle
    /\ Install(seed_data(Store))
    /\ startups' = startups + 1
    /\ UNCHANGED <<edits, resp, flights, raw, outcome>>

\* the server answers req with the response of res
Answer(req, res) ==
    /\ Install(res.st)
    /\ resp' = [req |-> req, r |-> res.r]

Handle(req) ==
    /\ startups > 0
    /\ resp = Idle
    /\ Answer(req, Run(Store, req))
    /\ UNCHANGED <<startups, flights, raw, outcome>>

\* main.py:114-116
root == Handle(Request("root", 0, NoForm)) /\ UNCHANGED edits

\* main.py:118-129
dashboard == Handle(Request("dashboard", 0, NoForm)) /\ UNCHANGED edits

\* main.py:131-143
manage == Handle(Request("manage", 0, NoForm)) /\ UNCHANGED edits

\* main.py:145-169
add_menu ==
    /\ menu_id_seq <= MaxMenuId
    /\ \E form \in AddForms : Handle(Request("add_menu", 0, form))
    /\ UNCHANGED edits

\* main.py:171-176
edit_menu_form ==
    /\ \E item_id \in ItemIds : Handle(Request("edit_menu_form", item_id, NoForm))
    /\ UNCHANGED edits

\* main.py:178-206
edit_menu ==
    /\ edits < MaxEdits
    /\ \E item_id \in ItemIds, form \in EditForms :
           Handle(Request("edit_menu", item_id, form))
    /\ edits' = edits + 1

\* the menu ids handed out so far whose records are gone
Deleted == (menu_id_seq - 1) - Len(MENU_DB)

\* main.py:208-214
delete_menu ==
    /\ \E item_id \in ItemIds :
           /\ FindIndex(MENU_DB, item_id) # 0 => Deleted < MaxDeletes
           /\ Handle(Request("delete_menu", item_id, NoForm))
    /\ UNCHANGED edits

\* main.py:216-237
add_service ==
    /\ service_id_seq <= MaxServiceId
    /\ \E form \in ServiceForms : Handle(Request("add_service", 0, form))
    /\ UNCHANGED edits

\* the response has been sent: the server takes the next request
reply ==
    /\ resp # Idle
    /\ resp' = Idle
    /\ UNCHANGED <<MENU_DB, SERVICE_DB, menu_id_seq, service_id_seq, menu_ids_issued,
                   startups, edits, flights, raw, outcome>>

Next ==
    \/ on_startup
    \/ reply
    \/ root
    \/ dashboard
    \/ manage
    \/ add_menu
    \/ edit_menu_form
    \/ edit_menu
    \/ delete_menu
    \/ add_service

Spec == Init /\ [][Next]_vars

----------------------------------------------------------------------------
(* coerce_price called on its own, on every short string over an alphabet *)
(* of digits, the decimal point, the comma and the blank, and on the      *)
(* strings the specification names                                        *)

\* the longest string of the alphabet given to coerce_price
MaxPriceLen == 4

PriceAlphabet == {"0", "5", "7", ".", ",", " "}

NamedPrices ==
    {<<>>, <<" ", " ">>, <<"-", "5">>, <<"a", "b", "c">>, <<"0", ".", "5", "7", "5">>}

PriceInputs ==
    NamedPrices \cup UNION {[1..n -> PriceAlphabet] : n \in 0..MaxPriceLen}

InitPrice ==
    /\ MENU_DB = Fresh.MENU_DB
    /\ SERVICE_DB = Fresh.SERVICE_DB
    /\ menu_id_seq = Fresh.menu_id_seq
    /\ service_id_seq = Fresh.service_id_seq
    /\ menu_ids_issued = {}
    /\ startups = 0
    /\ edits = 0
    /\ resp = Idle
    /\ flights = <<>>
    /\ raw \in PriceInputs
    /\ outcome = NotCalled

\* main.py:37-45: one call, coerce_price(raw)
call_coerce_price ==
    /\ outcome = NotCalled
    /\ outcome' = coerce_price(raw)
    /\ UNCHANGED <<MENU_DB, SERVICE_DB, menu_id_seq, service_id_seq, menu_ids_issued,
                   startups, edits, resp, flights, raw>>

NextPrice == call_coerce_price

SpecPrice == InitPrice /\ [][NextPrice]_vars

----------------------------------------------------------------------------
(* Requests in flight together.  The handlers are coroutines of one event  *)
(* loop: a handler that has started runs until it returns or awaits, and   *)
(* only then does the loop run another.                                    *)

\* how many requests are in flight together
MaxInFlight == 3

Flight(req, phase, r) == [req |-> req, phase |-> phase, r |-> r]

ConcRequests ==
    {Request("edit_menu", 1,
             Form(<<"R", "a", "m", "e", "n", " ">>, <<"1", ",", "2", "5", "0", ".", "7", "5">>,
                  <<" ", "h", "o", "t", " ">>, UsablePng, Some(Url))),
     Request("edit_menu", 1,
             Form(<<"S", "o", "b", "a">>, <<"1", "2", ".", "5">>, <<>>, UsableJpg, NoStr)),
     Request("delete_menu", 1, NoForm),
     Request("add_menu", 0,
             Form(<<" ", "T", "e", "s", "t">>, <<"1", "2", ".", "5">>, <<"x">>,
                  UsablePng, Some(Url))),
     Request("add_service", 0,
             Form(<<" ", "H", "a", "l", "l", " ">>, <<" ", "5", "0", "0", "0", " ">>, <<>>,
                  UsablePng, NoStr))}

\* the globals when the startup hook has run in a fresh process
Seeded == seed_data(Fresh)

InitConc ==
    /\ MENU_DB = Seeded.MENU_DB
    /\ SERVICE_DB = Seeded.SERVICE_DB
    /\ menu_id_seq = Seeded.menu_id_seq
    /\ service_id_seq = Seeded.service_id_seq
    /\ menu_ids_issued = Ids(Seeded.MENU_DB)
    /\ startups = 1
    /\ edits = 0
    /\ resp = Idle
    /\ flights = <<>>
    /\ raw = <<>>
    /\ outcome = NotCalled

\* a request arrives: its handler is scheduled on the event loop
arrive ==
    /\ Len(flights) < MaxInFlight
    /\ \E req \in ConcRequests : flights' = Append(flights, Flight(req, "new", Pending))
    /\ UNCHANGED <<MENU_DB, SERVICE_DB, menu_id_seq, service_id_seq, menu_ids_issued,
                   startups, edits, resp, raw, outcome>>

\* flight i has run as far as res
Advance(i, res) ==
    /\ Install(res.st)
    /\ flights' = [flights EXCEPT ![i] =
                      Flight(@.req, IF res.suspended THEN "suspended" ELSE "done", res.r)]

\* the event loop runs the handler of one flight, from its start or from
\* where it was suspended, until it returns or awaits
run_handler ==
    /\ \E i \in 1..Len(flights) :
           /\ flights[i].phase # "done"
           /\ Advance(i, IF flights[i].phase = "new"
                         THEN Begin(Store, flights[i].req)
                         ELSE Finish(Store, flights[i].req))
    /\ UNCHANGED <<startups, edits, resp, raw, outcome>>

NextConc ==
    \/ arrive
    \/ run_handler

SpecConc == InitConc /\ [][NextConc]_vars

----------------------------------------------------------------------------
(* What the specification says of the program.  A step that answers a      *)
(* request sets resp to the request and its response; the store before the *)
(* step is the unprimed one.                                               *)

\* the step answers a request
Answers == resp = Idle /\ resp' # Idle

HasId(db, k) == \E i \in 1..Len(db) : db[i].id = k

ById(db, k) == db[CHOOSE i \in 1..Len(db) : db[i].id = k]

IdsInOrder(db) == [i \in 1..Len(db) |-> db[i].id]

Highest(S) == IF S = {} THEN 0 ELSE CHOOSE x \in S : \A y \in S : y <= x

StoreUnchanged == UNCHANGED <<MENU_DB, SERVICE_DB, menu_id_seq, service_id_seq>>

Created(op) == resp'.req.op = op /\ resp'.r.status = 303 /\ resp'.r.param = "msg"

C1_Step ==
    /\ Created("add_menu") =>
          /\ Len(MENU_DB') = Len(MENU_DB) + 1
          /\ SubSeq(MENU_DB', 1, Len(MENU_DB)) = MENU_DB
          /\ MENU_DB'[Len(MENU_DB')].id = Highest(menu_ids_issued) + 1
          /\ MENU_DB'[Len(MENU_DB')].id \notin menu_ids_issued
    /\ resp'.req.op = "add_service" =>
          /\ menu_id_seq' = menu_id_seq
          /\ MENU_DB' = MENU_DB

\* C1: a successful create-menu appends one record whose id is one more than
\* the highest menu id ever issued in the process (seeded and deleted ones
\* included), hence an id never issued before; a create-service request leaves
\* the menu sequence and the menu collection alone.
C1_MenuIdIsFresh == [][Answers => C1_Step]_vars

\* a menu item created after a deletion, a service creation and an edit
C1_CreatedAfterDeletion ==
    /\ resp.req.op = "add_menu"
    /\ resp.r.param = "msg"
    /\ Len(MENU_DB) < menu_id_seq - 1
    /\ MENU_DB[Len(MENU_DB)].id = menu_id_seq - 1
    /\ service_id_seq > 3
    /\ edits > 0

C2_Step ==
    resp'.req.op = "delete_menu" =>
        LET k == resp'.req.item_id
            Others(m) == m.id # k
        IN  IF HasId(MENU_DB, k)
            THEN /\ MENU_DB' = SelectSeq(MENU_DB, Others)
                 /\ Len(MENU_DB') = Len(MENU_DB) - 1
                 /\ resp'.r.status = 303
                 /\ UNCHANGED <<SERVICE_DB, menu_id_seq, service_id_seq>>
            ELSE /\ resp'.r.status = 404
                 /\ StoreUnchanged

\* C2: delete-menu on an id of the menu collection removes that record and no
\* other, the other records keeping their fields and their order, and leaves the
\* service collection and both sequences alone; on an id that is not there it
\* answers 404 and changes nothing.
C2_DeleteRemovesOne == [][Answers => C2_Step]_vars

\* item 2 deleted from between its neighbours, a fifth item being there
C2_DeletedFromTheMiddle ==
    /\ resp.req.op = "delete_menu"
    /\ resp.req.item_id = 2
    /\ resp.r.status = 303
    /\ IdsInOrder(MENU_DB) = <<1, 3, 4, 5>>

\* the prices the specification names as failing validation: empty, blank,
\* negative, not a number
NamedInvalid == {<<>>, <<" ", " ">>, <<"-", "1">>, <<"a", "b", "c">>}

FailsValidation(price) ==
    price \in NamedInvalid \/ coerce_price(price).exc = "ValueError"

TakesPrice(op, item_id) ==
    op \in {"add_menu", "add_service"} \/ (op = "edit_menu" /\ HasId(MENU_DB, item_id))

C3_Step ==
    (TakesPrice(resp'.req.op, resp'.req.item_id) /\ FailsValidation(resp'.req.form.price)) =>
        /\ resp'.r.status = 303
        /\ resp'.r.param = "err"
        /\ resp'.r.text.msg # ""
        /\ StoreUnchanged

\* C3: create-menu, create-service and edit-menu on an existing id, given a
\* price that fails validation, answer with a redirect that carries an error
\* message and leave both collections and both id sequences as they were.
C3_RejectedPriceChangesNothing == [][Answers => C3_Step]_vars

\* an edit of an item of the collection refused for its negative price
C3_EditRefused ==
    /\ resp.req.op = "edit_menu"
    /\ HasId(MENU_DB, resp.req.item_id)
    /\ resp.req.form.price = <<"-", "1">>
    /\ resp.r.param = "err"
    /\ resp.r.text.msg = "Price cannot be negative"

\* an upload with a filename and content
Usable(file) == file.present /\ file.filename # <<>> /\ file.content # <<>>

IsDataUrl(image) == Len(image) > 5 /\ SubSeq(image, 1, 5) = <<"d", "a", "t", "a", ":">>

C4_Image(form, old, new) ==
    IF Usable(form.image_file)
    THEN new = encode_upload_to_data_url(form.image_file).val /\ IsDataUrl(new)
    ELSE IF form.image_url.some /\ form.image_url.val # <<>>
    THEN new = form.image_url.val
    ELSE new = old

C4_Step ==
    Created("edit_menu") =>
        /\ HasId(MENU_DB, resp'.req.item_id)
        /\ HasId(MENU_DB', resp'.req.item_id)
        /\ C4_Image(resp'.req.form, ById(MENU_DB, resp'.req.item_id).image,
                    ById(MENU_DB', resp'.req.item_id).image)

\* C4: after a successful edit-menu the image of the record is the data URL of
\* the upload when the upload has a filename and content, whatever image URL
\* comes with it; otherwise the image URL when it is not empty; otherwise the
\* image the record had.
C4_EditImagePrecedence == [][Answers => C4_Step]_vars

\* an edit that came with a usable upload and with an image URL
C4_EditedWithUploadAndUrl ==
    /\ resp.req.op = "edit_menu"
    /\ resp.r.param = "msg"
    /\ Usable(resp.req.form.image_file)
    /\ resp.req.form.image_url = Some(Url)
    /\ IsDataUrl(ById(MENU_DB, resp.req.item_id).image)

C5_Step ==
    /\ startups' # startups =>
          IF MENU_DB = <<>> /\ SERVICE_DB = <<>>
          THEN /\ IdsInOrder(MENU_DB') = <<1, 2, 3, 4>>
               /\ IdsInOrder(SERVICE_DB') = <<1, 2>>
               /\ menu_id_seq' = 5
               /\ service_id_seq' = 3
          ELSE StoreUnchanged
    /\ (Answers /\ Created("add_menu") /\ menu_ids_issued = 1..4) =>
          MENU_DB'[Len(MENU_DB')].id = 5
    /\ (Answers /\ Created("add_service") /\ IdsInOrder(SERVICE_DB) = <<1, 2>>) =>
          SERVICE_DB'[Len(SERVICE_DB')].id = 3

C6_PriceNeverUnhandled ==
    resp.req.op \in {"add_menu", "add_service", "edit_menu"} => resp.r.status \in {303, 404}

\* a text of digits with at most one point and at least one digit
IsPlain(t) ==
    /\ \A i \in 1..Len(t) : t[i] \in Digits \cup {"."}
    /\ Cardinality({i \in 1..Len(t) : t[i] = "."}) <= 1
    /\ \E i \in 1..Len(t) : t[i] \in Digits

NotPoint(c) == c # "."

RECURSIVE NatOf(_)
NatOf(ds) == IF ds = <<>> THEN 0 ELSE 10 * NatOf(SubSeq(ds, 1, Len(ds) - 1)) + DigitVal(ds[Len(ds)])

\* how many digits follow the point
FracLen(t) ==
    LET pts == {i \in 1..Len(t) : t[i] = "."}
    IN  IF pts = {} THEN 0 ELSE Len(t) - (CHOOSE i \in pts : TRUE)

\* n / d rounded to the nearest integer, a half going up or to the even
\* neighbour
Rounded(n, d) ==
    IF 2 * (n % d) < d THEN {n \div d}
    ELSE IF 2 * (n % d) > d THEN {n \div d + 1}
    ELSE {n \div d + 1, IF (n \div d) % 2 = 0 THEN n \div d ELSE n \div d + 1}

\* round(100 x value) for the plain decimal t
ExactCents(t) == Rounded(100 * NatOf(SelectSeq(t, NotPoint)), 10 ^ FracLen(t))

\* C7: for a decimal string, with commas and surrounding blanks allowed and no
\* minus sign, coerce_price returns round(100 x its value), a non-negative
\* integer; for "", "  ", "-5" and "abc" it raises the validation error.
C7_ParserRounds ==
    outcome # NotCalled =>
        /\ IsPlain(RemoveCommas(strip(raw))) =>
              /\ outcome.exc = ""
              /\ outcome.cents >= 0
              /\ outcome.cents \in ExactCents(RemoveCommas(strip(raw)))
        /\ raw \in {<<>>, <<" ", " ">>, <<"-", "5">>, <<"a", "b", "c">>} =>
              outcome.exc = "ValueError"

Increasing(db) == \A i, j \in 1..Len(db) : i < j => db[i].id < db[j].id

\* C8: in each collection the ids grow strictly with the position in the list,
\* so that no id occurs twice and the records stand in the order of their
\* creation.
C8_IdsIncreasing == Increasing(MENU_DB) /\ Increasing(SERVICE_DB)

\* both collections after a creation each, the menu after a deletion and an edit
C8_AfterCreatesAndDelete ==
    /\ menu_id_seq = 6
    /\ Len(MENU_DB) = 4
    /\ service_id_seq = 4
    /\ Len(SERVICE_DB) = 3
    /\ edits = 1

ByItemId == {"edit_menu_form", "edit_menu", "delete_menu"}

C9_Step ==
    /\ resp'.req.op \in ByItemId =>
          /\ resp'.r.status = 404 <=> ~HasId(MENU_DB, resp'.req.item_id)
          /\ resp'.r.status = 404 => StoreUnchanged
    /\ resp'.req.op \notin ByItemId => resp'.r.status # 404

\* an id that has gone from the menu collection does not come back
C9_GoneForGood == \A k \in menu_ids_issued : ~HasId(MENU_DB, k) => ~HasId(MENU_DB', k)

\* C9: edit-form, edit-submit and delete-menu answer 404 exactly when the id is
\* not in the menu collection, and then change nothing, edit-submit even when
\* its price is invalid; an id once deleted is never in the collection again,
\* so that later requests on it answer 404; no other endpoint answers 404.
C9_NotFoundExactly == [][(Answers => C9_Step) /\ C9_GoneForGood]_vars

\* an edit with an invalid price on a deleted id, an item having been created
\* since the seeding
C9_EditOfDeletedId ==
    /\ resp.req.op = "edit_menu"
    /\ resp.req.item_id \in menu_ids_issued
    /\ ~HasId(MENU_DB, resp.req.item_id)
    /\ resp.req.form.price = <<"a", "b", "c">>
    /\ resp.r.status = 404
    /\ menu_id_seq > 5

\* the requests of the flights numbered by order, answered one after the other
\* from the store st: the store at the end, and whether each response is the
\* one its flight got
RECURSIVE Serial(_, _, _)
Serial(st, order, n) ==
    IF n > Len(order)
    THEN [ok |-> TRUE, st |-> st]
    ELSE IF Run(st, flights[order[n]].req).r # flights[order[n]].r
    THEN [ok |-> FALSE, st |-> st]
    ELSE Serial(Run(st, flights[order[n]].req).st, order, n + 1)

Orders ==
    {o \in [1..Len(flights) -> 1..Len(flights)] :
        \A i, j \in 1..Len(flights) : o[i] = o[j] => i = j}

AllDone == \A i \in 1..Len(flights) : flights[i].phase = "done"

\* C10: when the requests in flight have all been answered, the store and the
\* responses are those of the requests handled one after the other in some
\* order, and no id occurs twice in a collection.
C10_Serializable ==
    AllDone =>
        /\ \E o \in Orders : Serial(Seeded, o, 1).ok /\ Serial(Seeded, o, 1).st = Store
        /\ Increasing(MENU_DB)
        /\ Increasing(SERVICE_DB)

\* two edits of item 1 and its deletion, in flight together, all answered
C10_TwoEditsAndDelete ==
    /\ Len(flights) = 3
    /\ AllDone
    /\ \E i, j, k \in 1..3 :
          /\ flights[i].req.op = "edit_menu"
          /\ flights[j].req.op = "edit_menu"
          /\ flights[i].req.form # flights[j].req.form
          /\ flights[i].r.param = "msg"
          /\ flights[j].r.param = "msg"
          /\ flights[k].req.op = "delete_menu"
          /\ flights[k].r.status = 303

=============================================================================
